---- MODULE Spec2Model ----
(***************************************************************************)
(* Model of toolbox_az/general/flags.py: the layered argument resolver     *)
(* MyArguments (an argparse.ArgumentParser subclass) and its singleton     *)
(* accessor Flags = SingletonDecorator(MyArguments).                       *)
(*                                                                         *)
(* Python values are records [t, m, n]: t the type name, m the name->value *)
(* mapping of a dict or Namespace, n the number of an int or the length of *)
(* a list or str.  A command-line token is a record [ch, name, val]: ch is *)
(* its first character ("" for the empty string, which has none), and      *)
(* "--name=val" is the token with ch = "-".  A token whose first character *)
(* is neither "-" nor a configured marker is a positional string.          *)
(***************************************************************************)
EXTENDS Integers, Sequences, FiniteSets, TLC

\* ------------------------------------------------------------------ bounds
MaxTokens == 2      \* longest token list handed to one parse_args call
MaxParses == 2      \* parse_args executions explored in one behaviour

\* ------------------------------------------------------------ Python values
Names == {"a", "b"}
EmptyMap == [k \in {} |-> 0]

PyNone == [t |-> "NoneType", m |-> EmptyMap, n |-> 0]
PyDict(f) == [t |-> "dict", m |-> f, n |-> 0]
PyNamespace(f) == [t |-> "Namespace", m |-> f, n |-> 0]
PyInt(i) == [t |-> "int", m |-> EmptyMap, n |-> i]
PyList(len) == [t |-> "list", m |-> EmptyMap, n |-> len]
\* a str of n characters, and a list of (name, value) pairs
PyStr(len) == [t |-> "str", m |-> EmptyMap, n |-> len]
PyPairs(f) == [t |-> "list", m |-> f, n |-> Cardinality(DOMAIN f)]

\* bool(o): Namespace defines neither __bool__ nor __len__, so it is always true
Truthy(o) ==
  CASE o.t = "NoneType" -> FALSE
    [] o.t = "dict" -> DOMAIN o.m # {}
    [] o.t = "Namespace" -> TRUE
    [] OTHER -> o.n # 0

\* dict.update(g) on f
Update(f, g) == [k \in DOMAIN f \cup DOMAIN g |-> IF k \in DOMAIN g THEN g[k] ELSE f[k]]

\* ------------------------------------------------------------------ tokens
Opt(nm, v) == [ch |-> "-", name |-> nm, val |-> v]
Ref(c, p) == [ch |-> c, name |-> p, val |-> 0]
EmptyTok == [ch |-> "", name |-> "", val |-> 0]
\* the argument string "{}"
BraceTok == [ch |-> "{", name |-> "{}", val |-> 0]

\* --------------------------------------------------------------- the files
\* What the referenced paths hold.  kind "yaml": a text document that YAML
\* decodes to obj; kind "pickle": a pickle stream of obj; kind "text": lines
\* of argument strings (YAML reads them as one plain scalar, or rejects a
\* leading "@" with a ScannerError); kind "empty": a file of no bytes; kind
\* "missing": no such file.  lines is what the text fallback reads.
NoLines == SubSeq(<<EmptyTok>>, 1, 0)
Files ==
  [p \in {"m1", "m2", "m0", "pl", "ps", "e", "t1", "t2", "nx"} |->
     CASE p = "m1" -> [kind |-> "yaml", obj |-> PyDict([k \in {"a", "b"} |-> 1]), lines |-> NoLines]
       [] p = "m2" -> [kind |-> "pickle", obj |-> PyDict([k \in {"a"} |-> 4]), lines |-> NoLines]
       [] p = "m0" -> [kind |-> "yaml", obj |-> PyDict(EmptyMap), lines |-> <<BraceTok>>]
       [] p = "pl" -> [kind |-> "pickle", obj |-> PyPairs([k \in {"a"} |-> 8]), lines |-> NoLines]
       [] p = "ps" -> [kind |-> "pickle", obj |-> PyStr(2), lines |-> NoLines]
       [] p = "e" -> [kind |-> "empty", obj |-> PyNone, lines |-> NoLines]
       [] p = "t1" -> [kind |-> "text", obj |-> PyNone, lines |-> <<Opt("a", 3)>>]
       [] p = "t2" -> [kind |-> "text", obj |-> PyNone, lines |-> <<Ref("@", "m1")>>]
       [] OTHER -> [kind |-> "missing", obj |-> PyNone, lines |-> NoLines]]

Ok(v) == [err |-> "", val |-> v]
Raise(e) == [err |-> e, val |-> PyNone]

\* try_pickle_parse: open() of a missing path is not among the caught
\* exceptions, nor is the EOFError of pickle.load on a file of no bytes;
\* pickle.load of a text document raises UnpicklingError (caught).  Whatever
\* object the stream holds is returned, a dict or not.
try_pickle_parse(file_path) ==
  CASE Files[file_path].kind = "missing" -> Raise("FileNotFoundError")
    [] Files[file_path].kind = "empty" -> Raise("EOFError")
    [] Files[file_path].kind = "pickle" -> Ok(Files[file_path].obj)
    [] OTHER -> Ok(PyNone)

\* try_yml_parse: a non-dict document gives None
try_yml_parse(file_path) ==
  IF Files[file_path].kind = "yaml" /\ Files[file_path].obj.t = "dict"
  THEN Ok(Files[file_path].obj)
  ELSE Ok(PyNone)

\* try_json_parse: json.loads of a file object raises TypeError (caught)
try_json_parse(file_path) == Ok(PyNone)

\* process_dict after the pickle attempt / after the YAML attempt
AfterYaml(dict_path, y) == IF Truthy(y.val) THEN y ELSE try_json_parse(dict_path)
AfterPickle(dict_path, p) ==
  IF p.err # "" \/ Truthy(p.val) THEN p ELSE AfterYaml(dict_path, try_yml_parse(dict_path))

process_dict(dict_path) == AfterPickle(dict_path, try_pickle_parse(dict_path))

\* ------------------------------------------------- file-reference expansion
\* Where an expansion stands: the error raised (if any), new_arg_strings, and
\* config_files_data as the expansion has left it.
Expanded(e, o, c) == [err |-> e, out |-> o, cfd |-> c]

\* dict.update(o) accepts a dict or an iterable of pairs
Mergeable(o) == o.t = "dict" \/ (o.t = "list" /\ DOMAIN o.m # {})

\* (variant: a key already in config_files_data keeps its value)
Merge_keep(cfd, o) == Update(o.m, cfd)

\* self.config_files_data.update(config_file_args)
Merge(cfd, o) == Update(cfd, o.m)

\* the exception of dict.update(o): the characters of a str are not pairs
\* (ValueError); the elements of another value are not sequences (TypeError)
UpdateError(o) == IF o.t = "str" THEN "ValueError" ELSE "TypeError"

RECURSIVE _read_args_from_files(_, _, _)

\* new_arg_strings.extend(arg_strings), unless the recursive expansion raised
Extend(new_arg_strings, r) ==
  IF r.err # "" THEN Expanded(r.err, new_arg_strings, r.cfd)
  ELSE Expanded("", new_arg_strings \o r.out, r.cfd)

\* _expand_arg_strings_from_file: convert_arg_line_to_args keeps each line as
\* one argument string; the lines are expanded recursively and appended.
_expand_arg_strings_from_file(markers, config_file_path, new_arg_strings, cfd) ==
  IF Files[config_file_path].kind = "missing"
  THEN Expanded("FileNotFoundError", new_arg_strings, cfd)
  ELSE Extend(new_arg_strings,
              _read_args_from_files(markers, Files[config_file_path].lines, cfd))

\* the else branch of the loop body, given what process_dict returned
MergeOrExpand(markers, config_file_path, acc, config_file_args) ==
  IF config_file_args.err # "" THEN Expanded(config_file_args.err, acc.out, acc.cfd)
  ELSE IF Truthy(config_file_args.val)
  THEN IF Mergeable(config_file_args.val)
       THEN Expanded("", acc.out, Merge(acc.cfd, config_file_args.val))
       ELSE Expanded(UpdateError(config_file_args.val), acc.out, acc.cfd)
  ELSE _expand_arg_strings_from_file(markers, config_file_path, acc.out, acc.cfd)

\* the loop body of _read_args_from_files for one argument string
ReadOne(markers, arg_string, acc) ==
  IF arg_string.ch = "" \/ arg_string.ch \notin markers
  THEN Expanded("", Append(acc.out, arg_string), acc.cfd)
  ELSE MergeOrExpand(markers, arg_string.name, acc, process_dict(arg_string.name))

\* the loop of _read_args_from_files; an exception ends it
RECURSIVE ReadLoop(_, _, _)
ReadLoop(markers, arg_strings, acc) ==
  IF arg_strings = <<>> \/ acc.err # "" THEN acc
  ELSE ReadLoop(markers, Tail(arg_strings), ReadOne(markers, Head(arg_strings), acc))

_read_args_from_files(markers, arg_strings, cfd) ==
  ReadLoop(markers, arg_strings, Expanded("", <<>>, cfd))

\* ------------------------------------------------ argparse.ArgumentParser
\* Registered optionals: decl[n] is "none" (not declared), "opt" (declared
\* with default DefaultVal) or "req" (declared with required=True).
DefaultVal == 0

Parsed(e, d, c) == [err |-> e, ns |-> d, cfd |-> c]

\* consume the argument strings left to right: "--name=val" of a declared
\* name stores val; anything else is an unrecognized argument
RECURSIVE Consume(_, _, _)
Consume(decl, arg_strings, ns) ==
  IF arg_strings = <<>> THEN [err |-> "", ns |-> ns]
  ELSE IF Head(arg_strings).ch = "-" /\ Head(arg_strings).name \in Names
          /\ decl[Head(arg_strings).name] # "none"
  THEN Consume(decl, Tail(arg_strings),
               Update(ns, [k \in {Head(arg_strings).name} |-> Head(arg_strings).val]))
  ELSE [err |-> "SystemExit", ns |-> ns]

Seen(arg_strings) == {arg_strings[i].name : i \in {j \in 1..Len(arg_strings) : arg_strings[j].ch = "-"}}

\* every declared name missing from the namespace gets its declared default
WithDefaults(decl, namespace) ==
  [k \in DOMAIN namespace \cup {n \in Names : decl[n] # "none"} |->
     IF k \in DOMAIN namespace THEN namespace[k] ELSE DefaultVal]

\* the end of the parse: unrecognized arguments and missing required ones
\* make parser.error exit with SystemExit
Finish(decl, r, c) ==
  IF c.err # "" THEN Parsed(c.err, EmptyMap, r.cfd)
  ELSE IF \E n \in Names : decl[n] = "req" /\ n \notin Seen(r.out)
  THEN Parsed("SystemExit", EmptyMap, r.cfd)
  ELSE Parsed("", c.ns, r.cfd)

ParseExpanded(decl, namespace, r) ==
  IF r.err # "" THEN Parsed(r.err, EmptyMap, r.cfd)
  ELSE Finish(decl, r, Consume(decl, r.out, WithDefaults(decl, namespace)))

\* ArgumentParser.parse_args(self, args, namespace): expand file references
\* (the overridden _read_args_from_files), set the defaults, consume the
\* argument strings and check the required ones.
ArgumentParser_parse_args(decl, markers, args, namespace, cfd) ==
  ParseExpanded(decl, namespace, _read_args_from_files(markers, args, cfd))

\* ------------------------------------------------------------------- state
VARIABLES
  instance,               \* SingletonDecorator.instance is not None
  created,                \* number of MyArguments objects ever constructed
  fromfile_prefix_chars,  \* MyArguments.fromfile_prefix_chars
  is_jupyter_notebook,    \* MyArguments.is_jupyter_notebook
  args,                   \* MyArguments.args: [none, dict]
  config_files_data,      \* MyArguments.config_files_data
  attrs,                  \* instance attributes written through __setattr__
  decl,                   \* the parser's registered arguments
  argv,                   \* sys.argv[1:]
  parses,                 \* number of executions of MyArguments.parse_args
  lazy,                   \* those run by a read since the last parse_args call or write
  last                    \* the last call: its inputs, its error and its result

vars == <<instance, created, fromfile_prefix_chars, is_jupyter_notebook, args,
          config_files_data, attrs, decl, argv, parses, lazy, last>>

NoArgs == [none |-> TRUE, dict |-> EmptyMap]
SomeArgs(d) == [none |-> FALSE, dict |-> d]

JupyterTok == [ch |-> "/", name |-> "jupyter", val |-> 0]

\* the process's invocation arguments
SysArgvs == {<<Opt("a", 3)>>, <<Ref("@", "nx")>>, <<JupyterTok>>}

\* values of the constructor's fromfile_prefix_chars argument (None: ["@"])
NoPrefix == {}
PrefixArgs == {NoPrefix, {"+"}}

Call(o, nm, v, e, t, ov, r) ==
  [op |-> o, name |-> nm, val |-> v, err |-> e, toks |-> t, ov |-> ov, ret |-> r,
   parsed |-> FALSE]
\* a call that executed MyArguments.parse_args
Parsing(c) == [c EXCEPT !.parsed = TRUE]
NoToks == SubSeq(<<EmptyTok>>, 1, 0)

Start(sysargvs) ==
  /\ instance = FALSE
  /\ created = 0
  /\ fromfile_prefix_chars = {}
  /\ is_jupyter_notebook = FALSE
  /\ args = NoArgs
  /\ config_files_data = EmptyMap
  /\ attrs = EmptyMap
  /\ decl = [n \in Names |-> "none"]
  /\ argv \in sysargvs
  /\ parses = 0
  /\ lazy = 0
  /\ last = Call("import", "", 0, "", NoToks, PyNone, EmptyMap)

Init == Start(SysArgvs)

\* ------------------------------------------------------ SingletonDecorator
\* MyArguments.__init__
MyArguments_init(prefix) ==
  /\ args' = NoArgs
  /\ fromfile_prefix_chars' = (IF prefix = NoPrefix THEN {"@"} ELSE prefix)
  /\ is_jupyter_notebook' = (\E i \in 1..Len(argv) : argv[i].name = "jupyter")
  /\ config_files_data' = EmptyMap
  /\ attrs' = EmptyMap
  /\ decl' = [n \in Names |-> "none"]
  /\ created' = created + 1

\* (variant: every call constructs)
NoInstance_always == TRUE

\* "if self.instance is None"
NoInstance == ~instance

\* SingletonDecorator.__call__: Flags(fromfile_prefix_chars=prefix)
Flags(prefix) ==
  /\ IF NoInstance
     THEN /\ MyArguments_init(prefix)
          /\ instance' = TRUE
     ELSE UNCHANGED <<instance, created, fromfile_prefix_chars, is_jupyter_notebook,
                      args, config_files_data, attrs, decl>>
  /\ last' = Call("Flags", "", 0, "", NoToks, PyNone, EmptyMap)
  /\ UNCHANGED <<argv, parses, lazy>>

\* ArgumentParser.add_argument("--" + n, default=DefaultVal, required=req);
\* a second declaration of the same option string is refused by argparse
add_argument(n, req) ==
  /\ instance
  /\ decl[n] = "none"
  /\ decl' = [decl EXCEPT ![n] = IF req THEN "req" ELSE "opt"]
  /\ last' = Call("add_argument", n, 0, "", NoToks, PyNone, EmptyMap)
  /\ UNCHANGED <<instance, created, fromfile_prefix_chars, is_jupyter_notebook, args,
                 config_files_data, attrs, argv, parses, lazy>>

\* ------------------------------------------------------------- MyArguments
\* (variant: an entry already in config_files_data is not overwritten)
process_default_namespace_keep(namespace_or_dict_args, cfd) ==
  IF Truthy(namespace_or_dict_args)
  THEN CASE namespace_or_dict_args.t = "Namespace" -> [err |-> "AttributeError", cfd |-> cfd]
         [] namespace_or_dict_args.t = "dict" ->
              [err |-> "", cfd |-> Update(namespace_or_dict_args.m, cfd)]
         [] OTHER -> [err |-> "TypeError", cfd |-> cfd]
  ELSE [err |-> "", cfd |-> cfd]

\* (variant: the default namespace is rebuilt from the overrides alone)
process_default_namespace_fresh(namespace_or_dict_args, cfd) ==
  IF Truthy(namespace_or_dict_args)
  THEN CASE namespace_or_dict_args.t = "Namespace" -> [err |-> "AttributeError", cfd |-> cfd]
         [] namespace_or_dict_args.t = "dict" ->
              [err |-> "", cfd |-> namespace_or_dict_args.m]
         [] OTHER -> [err |-> "TypeError", cfd |-> cfd]
  ELSE [err |-> "", cfd |-> EmptyMap]

\* process_default_namespace: the new config_files_data, or the error raised;
\* the namespace it returns is Namespace(**config_files_data), or None (and
\* argparse then starts from an empty Namespace) when that is empty
process_default_namespace(namespace_or_dict_args, cfd) ==
  IF Truthy(namespace_or_dict_args)
  THEN CASE namespace_or_dict_args.t = "Namespace" -> [err |-> "AttributeError", cfd |-> cfd]
         [] namespace_or_dict_args.t = "dict" ->
              [err |-> "", cfd |-> Update(cfd, namespace_or_dict_args.m)]
         [] OTHER -> [err |-> "TypeError", cfd |-> cfd]
  ELSE [err |-> "", cfd |-> cfd]

\* the loop over config_files_args: each one is parsed on its own and the
\* namespace it gives is dropped; an exception ends the loop
RECURSIVE ConfigFilesLoop(_, _, _, _)
ConfigFilesLoop(d, markers, config_files_args, acc) ==
  IF config_files_args = <<>> \/ acc.err # "" THEN acc
  ELSE ConfigFilesLoop(d, markers, Tail(config_files_args),
         ArgumentParser_parse_args(d, markers, <<Head(config_files_args)>>, EmptyMap, acc.cfd))

\* (variant: the invocation arguments are parsed under a notebook too)
EffectiveArgs_argv(isNone, jupyter, sysargv, tokens) ==
  IF isNone THEN sysargv ELSE tokens

\* args=None: the invocation arguments, or none under a notebook
EffectiveArgs(isNone, jupyter, sysargv, tokens) ==
  IF isNone THEN (IF jupyter THEN <<>> ELSE sysargv) ELSE tokens

\* line 261: the parse of other_args over the default namespace
FinalParse(d, markers, other_args, dn) ==
  IF dn.err # "" THEN Parsed(dn.err, EmptyMap, dn.cfd)
  ELSE ArgumentParser_parse_args(d, markers, other_args, dn.cfd, dn.cfd)

\* (variant: the overrides fill the namespace of this call and are not stored)
AfterConfigFiles_transient(d, markers, other_args, namespace_or_dict_args, f) ==
  IF f.err # "" THEN Parsed(f.err, EmptyMap, f.cfd)
  ELSE [FinalParse(d, markers, other_args,
                   process_default_namespace(namespace_or_dict_args, f.cfd))
          EXCEPT !.cfd = f.cfd]

\* lines 258-261, given how the loop over the config files ended
AfterConfigFiles(d, markers, other_args, namespace_or_dict_args, f) ==
  IF f.err # "" THEN Parsed(f.err, EmptyMap, f.cfd)
  ELSE FinalParse(d, markers, other_args,
                  process_default_namespace(namespace_or_dict_args, f.cfd))

\* lines 247-261; arg[0] of an empty string raises IndexError
Partitioned(d, markers, a, namespace_or_dict_args, cfd) ==
  IF \E i \in 1..Len(a) : a[i].ch = ""
  THEN Parsed("IndexError", EmptyMap, cfd)
  ELSE AfterConfigFiles(d, markers, SelectSeq(a, LAMBDA t : t.ch \notin markers),
         namespace_or_dict_args,
         ConfigFilesLoop(d, markers, SelectSeq(a, LAMBDA t : t.ch \in markers),
                         Parsed("", EmptyMap, cfd)))

\* MyArguments.parse_args as a function of the resolver's state: the error
\* raised, the namespace built, and config_files_data as the call leaves it
\* (isNone: args is None; the explicit token list otherwise)
parse_args(d, markers, jupyter, sysargv, cfd, isNone, tokens, namespace_or_dict_args) ==
  Partitioned(d, markers, EffectiveArgs(isNone, jupyter, sysargv, tokens),
              namespace_or_dict_args, cfd)

\* (variant: a failed call drops the cached result)
Cached_clear(r) == IF r.err = "" THEN SomeArgs(r.ns) ELSE NoArgs

\* self.args after parse_args: assigned only when the final parse returns
Cached(r) == IF r.err = "" THEN SomeArgs(r.ns) ELSE args

\* the resolver after an execution r of parse_args, recorded as the call o
Executed(r, tokens, ov, o) ==
  /\ parses' = parses + 1
  /\ config_files_data' = r.cfd
  /\ args' = Cached(r)
  /\ last' = Parsing(Call(o, "", 0, r.err, tokens, ov, IF r.err = "" THEN r.ns ELSE EmptyMap))

\* one execution of MyArguments.parse_args on the resolver (isNone: called
\* with args=None)
DoParse(isNone, tokens, ov, o) ==
  Executed(parse_args(decl, fromfile_prefix_chars, is_jupyter_notebook, argv,
                      config_files_data, isNone, tokens, ov), tokens, ov, o)

ParseArgs(tokens, ov) ==
  /\ instance
  /\ parses < MaxParses
  /\ DoParse(FALSE, tokens, ov, "parse_args")
  /\ lazy' = 0
  /\ UNCHANGED <<instance, created, fromfile_prefix_chars, is_jupyter_notebook, attrs,
                 decl, argv>>

\* parse_args(args=None, namespace_or_dict_args=ov): the invocation arguments
ParseArgsNone(ov) ==
  /\ instance
  /\ parses < MaxParses
  /\ DoParse(TRUE, NoToks, ov, "parse_args(None)")
  /\ lazy' = 0
  /\ UNCHANGED <<instance, created, fromfile_prefix_chars, is_jupyter_notebook, attrs,
                 decl, argv>>

\* (variant: every read parses again)
NotParsedYet_always == TRUE

\* "if self.args is None" of __getattr__ and get_argument_dict
NotParsedYet == args.none

\* (variant: a missing name reads as the declared default)
Lookup_default(d, name) ==
  IF name \in DOMAIN d THEN [err |-> "", ret |-> [k \in {name} |-> d[name]]]
  ELSE [err |-> "", ret |-> [k \in {name} |-> DefaultVal]]

\* self.args.__dict__[name]
Lookup(d, name) ==
  IF name \in DOMAIN d THEN [err |-> "", ret |-> [k \in {name} |-> d[name]]]
  ELSE [err |-> "KeyError", ret |-> EmptyMap]

\* __getattr__ after its parse_args call r: the lookup, unless r raised
Looked(r, name, v) ==
  /\ parses' = parses + 1
  /\ lazy' = lazy + 1
  /\ config_files_data' = r.cfd
  /\ args' = Cached(r)
  /\ last' = IF r.err # ""
             THEN Parsing(Call("get", name, 0, r.err, NoToks, PyNone, EmptyMap))
             ELSE Parsing(Call("get", name, 0, v.err, NoToks, PyNone, v.ret))

LookedUp(r, name) == Looked(r, name, Lookup(r.ns, name))

\* the value the normal attribute lookup finds
Found(name) == Call("get", name, 0, "", NoToks, PyNone, [k \in {name} |-> attrs[name]])

\* the value, or the KeyError, of the cached result
FromCache(v, name) == Call("get", name, 0, v.err, NoToks, PyNone, v.ret)

\* reading flags.<name>: an attribute found by the normal lookup is returned
\* as it is; __getattr__ runs only when the lookup fails
GetAttr(name) ==
  /\ instance
  /\ IF name \in DOMAIN attrs
     THEN /\ last' = Found(name)
          /\ UNCHANGED <<args, config_files_data, parses, lazy>>
     ELSE IF NotParsedYet
     THEN /\ parses < MaxParses
          /\ LookedUp(parse_args(decl, fromfile_prefix_chars, is_jupyter_notebook, argv,
                                 config_files_data, TRUE, NoToks, PyNone), name)
     ELSE /\ last' = FromCache(Lookup(args.dict, name), name)
          /\ UNCHANGED <<args, config_files_data, parses, lazy>>
  /\ UNCHANGED <<instance, created, fromfile_prefix_chars, is_jupyter_notebook, attrs,
                 decl, argv>>

\* (variant: the write reaches the cached result whenever there is one)
InCache_any(name) == ~args.none

\* "self.args is not None and name in self.args.__dict__"
InCache(name) == ~args.none /\ name \in DOMAIN args.dict

\* MyArguments.__setattr__: flags.<name> = value
SetAttr(name, value) ==
  /\ instance
  /\ attrs' = Update(attrs, [k \in {name} |-> value])
  /\ args' = IF InCache(name)
             THEN SomeArgs(Update(args.dict, [k \in {name} |-> value]))
             ELSE args
  /\ last' = Call("set", name, value, "", NoToks, PyNone, EmptyMap)
  /\ lazy' = 0
  /\ UNCHANGED <<instance, created, fromfile_prefix_chars, is_jupyter_notebook,
                 config_files_data, decl, argv, parses>>

\* MyArguments.get_argument_dict
GetArgumentDict ==
  /\ instance
  /\ IF NotParsedYet
     THEN /\ parses < MaxParses
          /\ DoParse(TRUE, NoToks, PyNone, "get_argument_dict")
          /\ lazy' = lazy + 1
     ELSE /\ last' = Call("get_argument_dict", "", 0, "", NoToks, PyNone, args.dict)
          /\ UNCHANGED <<args, config_files_data, parses, lazy>>
  /\ UNCHANGED <<instance, created, fromfile_prefix_chars, is_jupyter_notebook, attrs,
                 decl, argv>>

\* ------------------------------------------------------------ the inputs
RECURSIVE ListsUpTo(_, _)
ListsUpTo(S, n) ==
  IF n = 0 THEN {<<>>}
  ELSE LET shorter == ListsUpTo(S, n - 1) IN
       shorter \cup {Append(l, t) : l \in {x \in shorter : Len(x) = n - 1}, t \in S}

SetVal == 5
\* "a" is the declared parameter; "b" is a key of the files only
Declared == {"a"}
Tokens == {Opt("a", 3), Ref("@", "m1"), Ref("@", "nx")}
Overrides == {PyNone, PyDict([k \in {"a"} |-> 2]), PyInt(5)}

Next ==
  \/ \E prefix \in PrefixArgs : Flags(prefix)
  \/ \E n \in Declared : add_argument(n, FALSE)
  \/ \E tokens \in ListsUpTo(Tokens, MaxTokens), ov \in Overrides : ParseArgs(tokens, ov)
  \/ \E ov \in Overrides : ParseArgsNone(ov)
  \/ \E n \in Names : GetAttr(n)
  \/ \E n \in Names : SetAttr(n, SetVal)
  \/ GetArgumentDict

Spec == Init /\ [][Next]_vars

\* the single-call specification: a fresh resolver, its declarations, and one
\* parse_args call over the wider inputs
WideTokens ==
  {Opt("a", 3), Opt("b", 3), Ref("@", "m1"), Ref("@", "m2"), Ref("@", "pl"),
   Ref("@", "t1"), Ref("@", "t2"), Ref("@", "nx"), Ref("+", "m1"), EmptyTok}
WideOverrides ==
  {PyNone, PyDict(EmptyMap), PyDict([k \in {"a"} |-> 2]), PyNamespace(EmptyMap),
   PyNamespace([k \in {"a"} |-> 2]), PyInt(0), PyInt(5), PyList(0)}

FirstParse(tokens, ov) == parses = 0 /\ ParseArgs(tokens, ov)

NextOnce ==
  \/ \E prefix \in PrefixArgs : Flags(prefix)
  \/ \E n \in Names, req \in BOOLEAN : add_argument(n, req)
  \/ \E tokens \in ListsUpTo(WideTokens, MaxTokens), ov \in WideOverrides : FirstParse(tokens, ov)

InitOnce == Start({<<>>})

SpecOnce == InitOnce /\ [][NextOnce]_vars

\* the single-call specification over what the referenced files can hold: a
\* mapping, the empty mapping, a pickle of a list or of a str, no bytes
FileTokens ==
  {Opt("a", 3), Ref("@", "m1"), Ref("@", "m0"), Ref("@", "pl"), Ref("@", "ps"),
   Ref("@", "e"), EmptyTok}
FileOverrides == {PyNone, PyDict([k \in {"a"} |-> 2])}

NextFiles ==
  \/ \E prefix \in PrefixArgs : Flags(prefix)
  \/ \E n \in Names, req \in BOOLEAN : add_argument(n, req)
  \/ \E tokens \in ListsUpTo(FileTokens, MaxTokens), ov \in FileOverrides : FirstParse(tokens, ov)

SpecFiles == InitOnce /\ [][NextFiles]_vars

\* ================================================================= claims
IsMarker(t) == t.ch # "" /\ t.ch \in fromfile_prefix_chars
IsMapping(p) == Files[p].kind \in {"yaml", "pickle"} /\ Files[p].obj.t = "dict"

\* the mappings of the mapping files the marker tokens refer to, directly or
\* through text files, in the order of reference
RECURSIVE MappingsOf(_)
MappingsOf(toks) ==
  IF toks = <<>> THEN <<>>
  ELSE LET t == Head(toks) IN
       (IF ~IsMarker(t) THEN <<>>
        ELSE IF IsMapping(t.name) THEN <<Files[t.name].obj.m>>
        ELSE IF Files[t.name].kind = "text" THEN MappingsOf(Files[t.name].lines)
        ELSE <<>>) \o MappingsOf(Tail(toks))

FPresent(toks, n) == \E i \in 1..Len(MappingsOf(toks)) : n \in DOMAIN MappingsOf(toks)[i]
FValue(toks, n) ==
  LET ms == MappingsOf(toks)
      i == CHOOSE j \in 1..Len(ms) : n \in DOMAIN ms[j] /\ \A k \in (j+1)..Len(ms) : n \notin DOMAIN ms[k]
  IN ms[i][n]
OPresent(ov, n) == ov.t = "dict" /\ n \in DOMAIN ov.m
CPresent(toks, n) == \E i \in 1..Len(toks) : toks[i].ch = "-" /\ toks[i].name = n
CValue(toks, n) ==
  LET i == CHOOSE j \in 1..Len(toks) :
             /\ toks[j].ch = "-" /\ toks[j].name = n
             /\ \A k \in (j+1)..Len(toks) : ~(toks[k].ch = "-" /\ toks[k].name = n)
  IN toks[i].val

\* every file the marker tokens refer to is a mapping file, a text file or
\* missing (no pickle of a value that is not a dict)
OnlyMappingsAndText(toks) ==
  \A i \in 1..Len(toks) :
    (IsMarker(toks[i]) /\ Files[toks[i].name].kind = "pickle") => IsMapping(toks[i].name)

\* C1: in the first parse_args call on a fresh resolver that returns, every
\* parameter declared as an optional flag is resolved to the command-line
\* value when a token supplies it, else to the dict overrides' value, else to
\* the mapping files' value, else to its declared default.
C1_Precedence ==
  (last.op = "parse_args" /\ last.err = "" /\ parses = 1
     /\ OnlyMappingsAndText(last.toks)) =>
    \A n \in Names : decl[n] = "opt" =>
      args.dict[n] = IF CPresent(last.toks, n) THEN CValue(last.toks, n)
                     ELSE IF OPresent(last.ov, n) THEN last.ov.m[n]
                     ELSE IF FPresent(last.toks, n) THEN FValue(last.toks, n)
                     ELSE DefaultVal

\* C1 witness: a file value and an override are present, no token: the override wins
C1_Witness ==
  /\ last.op = "parse_args" /\ last.err = "" /\ parses = 1
  /\ decl["a"] = "opt"
  /\ FPresent(last.toks, "a") /\ OPresent(last.ov, "a") /\ ~CPresent(last.toks, "a")
  /\ args.dict["a"] = 2

\* the token list with every top-level reference to a text file replaced by
\* the file's lines
RECURSIVE Spliced(_)
Spliced(toks) ==
  IF toks = <<>> THEN <<>>
  ELSE LET t == Head(toks) IN
       (IF IsMarker(t) /\ Files[t.name].kind = "text" THEN Files[t.name].lines ELSE <<t>>)
       \o Spliced(Tail(toks))

RefersToText(toks) == \E i \in 1..Len(toks) : IsMarker(toks[i]) /\ Files[toks[i].name].kind = "text"

\* C2: a parse_args call whose tokens refer to a text file gives the outcome
\* of the call with the file's lines spliced in at the reference's position.
C2_TextFileInline ==
  (last.op = "parse_args" /\ parses = 1 /\ RefersToText(last.toks)) =>
    LET r == parse_args(decl, fromfile_prefix_chars, is_jupyter_notebook, argv,
                        EmptyMap, FALSE, Spliced(last.toks), last.ov)
    IN /\ (last.err = "") = (r.err = "")
       /\ last.err = "" => args.dict = r.ns

\* C3: a parse_args call with a Namespace as overrides and no tokens returns,
\* and every entry of the Namespace is the resolved value of its name.
C3_NamespaceOverrides ==
  (last.op = "parse_args" /\ last.ov.t = "Namespace" /\ last.toks = <<>>
     /\ \A n \in Names : decl[n] # "req") =>
    /\ last.err = ""
    /\ \A k \in DOMAIN last.ov.m : k \in DOMAIN args.dict /\ args.dict[k] = last.ov.m[k]

\* C8: parse_args raises TypeError for every overrides value that is not
\* None, not a Namespace and not a dict.
C8_TypeErrorForOtherTypes ==
  (last.op = "parse_args" /\ last.ov.t \notin {"NoneType", "Namespace", "dict"}) =>
    last.err = "TypeError"

Reads == {"get", "get_argument_dict"}

\* C4 as stated: over reads with no parse_args call and no write in between,
\* parse_args is executed at most once, and a read of the name just read
\* returns the same value.
C4_AtMostOneParse ==
  [][last'.op \in Reads =>
       /\ lazy' <= 1
       /\ (last.op = "get" /\ last'.op = "get" /\ last.name = last'.name
             /\ last.err = "" /\ last'.err = "") => last'.ret = last.ret]_vars

\* C4 amended: once a resolution has succeeded a read executes no parse and
\* changes neither the cached result nor the attributes, and a read of the
\* name just read returns the same value; only a lazy parse that raised is
\* executed again by the next read.
C4_NoParseOnceResolved ==
  [][last'.op \in Reads =>
       /\ ~args.none => (~last'.parsed /\ parses' = parses /\ args' = args /\ attrs' = attrs)
       /\ (last.op = "get" /\ last'.op = "get" /\ last.name = last'.name
             /\ last.err = "" /\ last'.err = "") => last'.ret = last.ret]_vars

\* C4 witness: a read that did not parse, after the lazy parse of an earlier
\* read succeeded
C4_Witness ==
  /\ last.op = "get" /\ ~last.parsed /\ last.err = "" /\ lazy = 1 /\ parses = 1
  /\ attrs = EmptyMap /\ argv = <<Opt("a", 3)>> /\ last.ret = [k \in {"a"} |-> 3]

\* C5: at most one resolver is ever constructed, and a construction call made
\* when the instance exists changes nothing of it, whatever its arguments.
C5_Singleton ==
  /\ [](created <= 1)
  /\ [][(last'.op = "Flags" /\ instance) =>
          UNCHANGED <<instance, created, fromfile_prefix_chars, is_jupyter_notebook, args,
                      config_files_data, attrs, decl>>]_vars

\* C5 witness: a construction call on an instance built with the marker "+"
\* and resolved since
C5_Witness ==
  /\ last.op = "Flags" /\ created = 1 /\ fromfile_prefix_chars = {"+"} /\ ~args.none

\* C6: a write of a name that is a key of the cached result makes the cached
\* result map the name to the value (and nothing else of it changes); any
\* other write leaves the cached result as it is; no write changes
\* config_files_data.
C6_SetFrame ==
  [][last'.op = "set" =>
       /\ config_files_data' = config_files_data
       /\ IF ~args.none /\ last'.name \in DOMAIN args.dict
          THEN args' = SomeArgs([args.dict EXCEPT ![last'.name] = last'.val])
          ELSE args' = args]_vars

\* C6 witness: a write that reached the cached result, and one that did not
C6_Witness ==
  /\ last.op = "set" /\ ~args.none
  /\ last.name = "a" /\ "a" \in DOMAIN args.dict /\ args.dict["a"] = SetVal
  /\ "b" \in DOMAIN attrs /\ "b" \notin DOMAIN args.dict

HasMissingRef(toks) ==
  \E i \in 1..Len(toks) : IsMarker(toks[i]) /\ Files[toks[i].name].kind = "missing"

\* C7: a parse_args call whose tokens include a marker token of a path that
\* does not exist raises, and the cached result is what it was before.
C7_MissingFileAborts ==
  [][(last'.op = "parse_args" /\ HasMissingRef(last'.toks)) =>
       (last'.err # "" /\ args' = args)]_vars

\* C7 witness: the call failed on the missing file after an earlier success
C7_Witness ==
  /\ last.op = "parse_args" /\ HasMissingRef(last.toks) /\ last.err = "FileNotFoundError"
  /\ ~args.none /\ parses = 2

\* C9 as stated: reading a name that was never declared raises KeyError.
C9_KeyErrorIfUndeclared ==
  (last.op = "get" /\ decl[last.name] = "none") => last.err = "KeyError"

\* C9 amended: once a resolution has succeeded, reading a name raises KeyError
\* when the name was never declared, is not a key of config_files_data (the
\* mapping files and dict overrides merged so far) and was never written; a
\* never-declared, never-written name that the cached result holds is read
\* with the cached value.
C9_KeyErrorIfAbsent ==
  (last.op = "get" /\ ~args.none /\ decl[last.name] = "none"
     /\ last.name \notin DOMAIN attrs) =>
    /\ last.name \notin DOMAIN config_files_data => last.err = "KeyError"
    /\ last.name \in DOMAIN args.dict =>
         (last.err = "" /\ last.ret = [k \in {last.name} |-> args.dict[last.name]])

\* C9 witness: KeyError for "b" while the undeclared "a" of a file is readable
C9_Witness ==
  /\ last.op = "get" /\ last.name = "b" /\ last.err = "KeyError"
  /\ decl["b"] = "none" /\ ~args.none /\ "a" \in DOMAIN args.dict

NoMarker(toks) == \A i \in 1..Len(toks) : ~IsMarker(toks[i])

\* C10: no step removes a key of config_files_data, and only a parse_args
\* execution changes a value of it; a parse_args call that references no
\* file, passes no overrides and returns resolves every key of it that no
\* token supplies to the accumulated value.
C10_Accumulates ==
  [][/\ \A k \in DOMAIN config_files_data :
          /\ k \in DOMAIN config_files_data'
          /\ config_files_data'[k] # config_files_data[k] => parses' = parses + 1
     /\ (last'.op = "parse_args" /\ last'.err = "" /\ NoMarker(last'.toks)
           /\ last'.ov = PyNone) =>
          \A k \in DOMAIN config_files_data :
            ~CPresent(last'.toks, k) => args'.dict[k] = config_files_data[k]]_vars

\* C10 witness: the file value of an earlier call is the resolved value of a
\* later call without tokens
C10_Witness ==
  /\ last.op = "parse_args" /\ last.err = "" /\ last.toks = <<>> /\ last.ov = PyNone
  /\ parses = 2 /\ lazy = 0
  /\ "a" \in DOMAIN config_files_data /\ args.dict["a"] = 1

RefersToEmpty(toks) == \E i \in 1..Len(toks) : IsMarker(toks[i]) /\ Files[toks[i].name].kind = "empty"
WithoutEmpty(toks) == SelectSeq(toks, LAMBDA t : ~(IsMarker(t) /\ Files[t.name].kind = "empty"))

\* C11: a parse_args call whose tokens refer to an existing file that no
\* decoder can interpret (here the file of no bytes) raises no decoder
\* exception: the file is read by the text fallback, which finds no argument
\* string in it, so the call ends as the call without the reference does.
C11_DecodersNeverRaise ==
  (last.op = "parse_args" /\ parses = 1 /\ RefersToEmpty(last.toks)) =>
    /\ last.err # "EOFError"
    /\ LET r == parse_args(decl, fromfile_prefix_chars, is_jupyter_notebook, argv,
                           EmptyMap, FALSE, WithoutEmpty(last.toks), last.ov)
       IN /\ last.err = r.err
          /\ last.err = "" => args.dict = r.ns

\* the token at position i refers directly to a mapping file
RefersToMapping(toks, i) == IsMarker(toks[i]) /\ IsMapping(toks[i].name)
MappingAt(toks, i) == Files[toks[i].name].obj.m
\* no file referenced after position j, directly or through a text file, sets k
NotSetAfter(toks, j, k) == ~FPresent(SubSeq(toks, j + 1, Len(toks)), k)

\* C12: in a parse_args call that returns, for mapping files A and B
\* referenced in this order (B the last referenced file that sets k), a key k
\* of both has B's value in config_files_data, and a key of A that B and the
\* files after it do not set has A's value, unless the overrides supply k.
C12_LaterFileWins ==
  (last.op = "parse_args" /\ last.err = "" /\ parses = 1
     /\ OnlyMappingsAndText(last.toks)) =>
    \A i, j \in 1..Len(last.toks) : \A k \in Names :
      (i < j /\ RefersToMapping(last.toks, i) /\ RefersToMapping(last.toks, j)
         /\ k \in DOMAIN MappingAt(last.toks, i) /\ ~OPresent(last.ov, k)
         /\ NotSetAfter(last.toks, j, k)) =>
        /\ k \in DOMAIN config_files_data
        /\ config_files_data[k] = IF k \in DOMAIN MappingAt(last.toks, j)
                                  THEN MappingAt(last.toks, j)[k]
                                  ELSE MappingAt(last.toks, i)[k]

\* C12 witness: m1 sets a and b, m2 after it sets a alone
C12_Witness ==
  /\ last.op = "parse_args" /\ last.err = "" /\ last.ov = PyNone
  /\ last.toks = <<Ref("@", "m1"), Ref("@", "m2")>>
  /\ config_files_data = [k \in {"a", "b"} |-> IF k = "a" THEN 4 ELSE 1]

\* the calls that run parse_args with args=None
FromArgv == Reads \cup {"parse_args(None)"}

\* C13: on a resolver that detected the notebook, an execution of parse_args
\* with args=None (by a read or by an explicit call) leaves the resolver as
\* the call with the empty token list does and raises what that call raises:
\* the invocation arguments cause no failure, and every declared parameter
\* takes its config_files_data value or else its declared default.
C13_NotebookIgnoresArgv ==
  [][(last'.op \in FromArgv /\ last'.parsed /\ is_jupyter_notebook) =>
       LET r == parse_args(decl, fromfile_prefix_chars, is_jupyter_notebook, argv,
                           config_files_data, FALSE, NoToks, last'.ov)
       IN /\ config_files_data' = r.cfd
          /\ args' = (IF r.err = "" THEN SomeArgs(r.ns) ELSE args)
          /\ r.err # "" => last'.err = r.err
          /\ last'.err \in {"", "KeyError", "TypeError"}
          /\ last'.err = "TypeError" => last'.ov.t = "int"
          /\ r.err = "" =>
               \A n \in Names : decl[n] # "none" =>
                 args'.dict[n] = IF n \in DOMAIN config_files_data'
                                 THEN config_files_data'[n] ELSE DefaultVal]_vars

\* C13 witness: under a notebook the first read resolves "a" to its default
C13_Witness ==
  /\ last.op = "get" /\ last.parsed /\ is_jupyter_notebook /\ argv = <<JupyterTok>>
  /\ decl["a"] = "opt" /\ last.err = "" /\ last.ret = [k \in {"a"} |-> DefaultVal]

Resolves == {"parse_args", "parse_args(None)"}

\* C14: a parse_args call that raises leaves the cached result and
\* config_files_data as they were before the call; in particular a call that
\* raises TypeError for its overrides has merged no referenced file.
C14_FailedCallChangesNothing ==
  [][(last'.op \in Resolves /\ last'.err # "") =>
       (args' = args /\ config_files_data' = config_files_data)]_vars

\* C15: once a resolution has succeeded, a read of a name that is a key of the
\* cached result returns the value the cached result holds for it.
C15_GetReadsCache ==
  (last.op = "get" /\ ~args.none /\ last.name \in DOMAIN args.dict) =>
    (last.err = "" /\ last.ret = [k \in {last.name} |-> args.dict[last.name]])

\* every token refers to a file whose content decodes to a mapping
OnlyMappingRefs(toks) == toks # <<>> /\ \A i \in 1..Len(toks) : RefersToMapping(toks, i)

\* C16: in a parse_args call whose tokens all refer to files that decode to a
\* mapping (the empty mapping included), the expansion of the tokens hands no
\* argument string to the parser, every key of the files is a key of
\* config_files_data, and, with no parameter required, the call returns.
C16_MappingNotExpanded ==
  (last.op = "parse_args" /\ parses = 1 /\ last.ov = PyNone
     /\ OnlyMappingRefs(last.toks) /\ \A n \in Names : decl[n] # "req") =>
    /\ _read_args_from_files(fromfile_prefix_chars, last.toks, EmptyMap).out = <<>>
    /\ last.err = ""
    /\ \A i \in 1..Len(last.toks) :
         DOMAIN MappingAt(last.toks, i) \subseteq DOMAIN config_files_data

\* C17: no parse_args call fails in the partition of its tokens (IndexError),
\* and a call whose tokens hold no marker token and that passes no overrides
\* ends as the underlying parser ends on the same tokens in the same order.
C17_PartitionNeverFails ==
  (last.op = "parse_args" /\ parses = 1) =>
    /\ last.err # "IndexError"
    /\ (NoMarker(last.toks) /\ last.ov = PyNone) =>
         LET r == ArgumentParser_parse_args(decl, fromfile_prefix_chars, last.toks,
                                            EmptyMap, EmptyMap)
         IN /\ last.err = r.err
            /\ last.err = "" => args.dict = r.ns

\* C18: a parse_args call that returns has stored every entry of its dict
\* overrides in config_files_data; no other step changes config_files_data;
\* and a later parse_args call that passes no overrides and returns resolves
\* every key k of config_files_data that no token supplies to the value of the
\* last mapping file it references that sets k, or else to the stored value.
C18_OverridesPersist ==
  [][/\ (last'.op \in Resolves /\ last'.err = "" /\ last'.ov.t = "dict") =>
          \A k \in DOMAIN last'.ov.m :
            k \in DOMAIN config_files_data' /\ config_files_data'[k] = last'.ov.m[k]
     /\ ~last'.parsed => config_files_data' = config_files_data
     /\ (last'.op = "parse_args" /\ last'.err = "" /\ last'.ov = PyNone) =>
          \A k \in DOMAIN config_files_data :
            ~CPresent(last'.toks, k) =>
              args'.dict[k] = IF FPresent(last'.toks, k) THEN FValue(last'.toks, k)
                              ELSE config_files_data[k]]_vars

\* C18 witness: the override a = 2 of the first call is the value of "a" in a
\* second call that passes no token and no overrides
C18_Witness ==
  /\ last.op = "parse_args" /\ last.err = "" /\ last.toks = <<>> /\ last.ov = PyNone
  /\ parses = 2 /\ lazy = 0 /\ attrs = EmptyMap
  /\ config_files_data = [k \in {"a"} |-> 2] /\ args.dict = [k \in {"a"} |-> 2]

\* the tokens without the references to files of a non-empty mapping
HoldsEntries(p) == IsMapping(p) /\ DOMAIN Files[p].obj.m # {}
WithoutMappingRefs(toks) == SelectSeq(toks, LAMBDA t : ~(IsMarker(t) /\ HoldsEntries(t.name)))
HasMappingRef(toks) == \E i \in 1..Len(toks) : IsMarker(toks[i]) /\ HoldsEntries(toks[i].name)

\* C19: when the tokens of a parse_args call without its references to
\* (non-empty) mapping files hold no file reference and resolve successfully, the call
\* returns too, and every parameter a token supplies has the same value.
C19_FileRefKeepsSuccess ==
  (last.op = "parse_args" /\ parses = 1 /\ HasMappingRef(last.toks)
     /\ NoMarker(WithoutMappingRefs(last.toks))) =>
    LET r == parse_args(decl, fromfile_prefix_chars, is_jupyter_notebook, argv,
                        EmptyMap, FALSE, WithoutMappingRefs(last.toks), last.ov)
    IN r.err = "" =>
         /\ last.err = ""
         /\ \A n \in Names : CPresent(last.toks, n) => args.dict[n] = r.ns[n]

\* every token refers to a pickle file of a value that is not a dict
OnlyOtherPickles(toks) ==
  /\ toks # <<>>
  /\ \A i \in 1..Len(toks) :
       IsMarker(toks[i]) /\ Files[toks[i].name].kind = "pickle" /\ ~IsMapping(toks[i].name)

\* C20: a parse_args call whose tokens all refer to pickle files of values
\* that are not dicts (a list of pairs, a str) merges nothing into
\* config_files_data and raises no exception of the merge.
C20_OnlyMappingsMerged ==
  (last.op = "parse_args" /\ parses = 1 /\ last.ov = PyNone
     /\ OnlyOtherPickles(last.toks)) =>
    /\ config_files_data = EmptyMap
    /\ last.err \notin {"ValueError", "TypeError"}

====
